---- MODULE Spec2Model ----
(***************************************************************************)
(* Model of the texture codecs and the channel-formula evaluator of        *)
(* WarcraftTextureForge:                                                   *)
(*   TGAConverter   (src/services/tgaService.ts)                           *)
(*   BLPConverter   (src/services/blpService.ts)                           *)
(*   ImageProcessor (src/services/imageProcessor.ts)                       *)
(* A byte buffer is a sequence of 0..255 (index i of the code is element   *)
(* i+1).  An ImageData is a record [width, height, data] whose data is the *)
(* Uint8ClampedArray, four bytes R,G,B,A per pixel.                        *)
(***************************************************************************)
EXTENDS Integers, Sequences, FiniteSets, TLC

VARIABLES
    tgaFile,      \* bytes handed to TGAConverter.decode
    tgaDecoded,   \* what TGAConverter.decode did with tgaFile
    srcImage,     \* ImageData handed to TGAConverter.encode, as [width, height,
                  \* seed, step]: its bytes are PatternData of these
    tgaEncoded,   \* the Blob TGAConverter.encode returned for srcImage, as its
                  \* size: its bytes are EncodedOf(srcImage)
    tgaRound,     \* what TGAConverter.decode did with the bytes of that Blob
    tgaReencoded, \* what TGAConverter.encode wrote for the buffer decoded from
                  \* tgaFile
    blpFile,      \* bytes handed to BLPConverter.decode
    blpDecoded,   \* what BLPConverter.decode did with blpFile
    jpegCalls,    \* byte streams handed to the JPEG collaborator, in order
    jpegImage,    \* the ImageData the JPEG collaborator resolved with
    fxImage,      \* ImageData handed to ImageProcessor.applyFormulas
    fxFormulas,   \* ChannelFormulas handed to ImageProcessor.applyFormulas
    fxGlobals,    \* the global scope at the time of that call: the names an
                  \* expression can read besides r, g, b, a
    fxResult,     \* what ImageProcessor.applyFormulas returned
    heap,         \* backing stores of the application's ImageData objects, by id
    activeTexture,\* App state: the loaded texture, its imageData and
                  \* processedImageData as ids of backing stores
    appFormulas,  \* App state `formulas`: the formula set being edited
    formulaError, \* App state: the error shown for the last reforge
    globals,      \* the global scope of the page
    loadedData,   \* the bytes of the texture's imageData when it was loaded
    lastRun,      \* the latest applyFormulas call on the loaded texture
    prevRun,      \* the applyFormulas call on it before that
    swapImage,    \* the ImageData BLPConverter.swapRBChannels works on, in place
    swapOriginal, \* its bytes before the first call
    swapCount,    \* calls of swapRBChannels made on it
    encCanvas,    \* pixels of the canvas handed to BLPConverter.encode, as
                  \* ctx.getImageData reads them
    encTemp,      \* pixels encode put on its temporary canvas
    encJpeg,      \* the JPEG bytes the collaborator made of the temporary canvas
    blpEncoded,   \* what BLPConverter.encode did
    encStream     \* the JPEG stream BLPConverter.decode extracts from its output

vars == <<tgaFile, tgaDecoded, srcImage, tgaEncoded, tgaRound, tgaReencoded,
          blpFile, blpDecoded, jpegCalls, jpegImage,
          fxImage, fxFormulas, fxGlobals, fxResult,
          heap, activeTexture, appFormulas, formulaError, globals, loadedData,
          lastRun, prevRun, swapImage, swapOriginal, swapCount,
          encCanvas, encTemp, encJpeg, blpEncoded, encStream>>

tgaVars == <<tgaFile, tgaDecoded, srcImage, tgaEncoded, tgaRound, tgaReencoded>>
blpVars == <<blpFile, blpDecoded, jpegCalls, jpegImage>>
fxVars  == <<fxImage, fxFormulas, fxGlobals, fxResult>>
appVars == <<heap, activeTexture, appFormulas, formulaError, globals, loadedData,
          lastRun, prevRun>>
swapVars == <<swapImage, swapOriginal, swapCount>>
encVars == <<encCanvas, encTemp, encJpeg, blpEncoded, encStream>>

---------------------------------------------------------------------------
(* Bounds of the model *)

MaxW == 2          \* largest ordinary image width
MaxH == 2          \* largest ordinary image height
MaxCut == 2        \* most bytes cut from the end of a generated payload
MaxPackets == 2    \* most RLE packets in a generated payload
MaxRun == 3        \* longest generated RLE packet
MaxTail == 4       \* most bytes after the 160 header bytes of a generated BLP
MaxSwaps == 2      \* most calls of swapRBChannels on one buffer

---------------------------------------------------------------------------
(* Values shared by the three components *)

\* what reading a typed array past its end yields
Undefined == 0 - 1

NoImage == [width |-> 0, height |-> 0, data |-> <<>>]
NoFormulas == [r |-> "", g |-> "", b |-> "", a |-> ""]
NoBytes == <<>>

\* outcome of a call: a value or a thrown error
Idle           == [status |-> "idle",  error |-> "",  img |-> NoImage, bytes |-> NoBytes, underrun |-> FALSE]
Returned(i)    == [status |-> "ok",    error |-> "",  img |-> i,       bytes |-> NoBytes, underrun |-> FALSE]
ReturnedBytes(b) == [status |-> "ok",  error |-> "",  img |-> NoImage, bytes |-> b,       underrun |-> FALSE]
Thrown(e)      == [status |-> "error", error |-> e,   img |-> NoImage, bytes |-> NoBytes, underrun |-> FALSE]

\* a Blob made of the given bytes; the state keeps its size
Blob(bytes) == [status |-> "ok", size |-> Len(bytes)]
NoBlob == [status |-> "idle", size |-> 0]

\* applyFormulas has not returned yet
FxIdle == [status |-> "idle", data |-> NoImage, error |-> "", stored |-> 0]

\* a global scope in which no name besides the built-in ones is defined
NoGlobals == <<>>

\* const [activeTexture, ...] = useState(null)
NoTexture == [width |-> 0, height |-> 0, imageData |-> 0, processedImageData |-> 0]

\* no applyFormulas call yet
NoRun == [status |-> "idle", formulas |-> NoFormulas, globals |-> NoGlobals,
          buf |-> 0, out |-> NoBytes, error |-> ""]

Min(x, y) == IF x < y THEN x ELSE y
Max(x, y) == IF x > y THEN x ELSE y

\* Uint8ClampedArray store of a byte that was read from a typed array:
\* undefined converts to NaN and is stored as 0
StoreByte(v) == IF v = Undefined THEN 0 ELSE v

\* pixels[i] = v on a typed array: an index outside the array is ignored
SetIndex(arr, i, v) ==
    IF i >= 0 /\ i < Len(arr) THEN [arr EXCEPT ![i + 1] = StoreByte(v)] ELSE arr

\* new ImageData(data, width, height): throws unless width, height > 0 and
\* data holds width*height*4 bytes
NewImageData(data, width, height) ==
    IF width = 0 \/ height = 0 \/ Len(data) # width * height * 4
    THEN Thrown("IndexSizeError")
    ELSE Returned([width |-> width, height |-> height, data |-> data])

---------------------------------------------------------------------------
(* TGAConverter *)

U16Mod == 65536

\* DataView.setUint16(_, n, true): n modulo 2^16, low byte first
SetUint16LE(n) == << (n % U16Mod) % 256, (n % U16Mod) \div 256 >>

\* DataView.getUint16(off, true)
GetUint16LE(buf, off) == buf[off + 1] + 256 * buf[off + 2]

\* rawData[offset]
RawAt(raw, offset) == IF offset < Len(raw) THEN raw[offset + 1] ELSE Undefined

\* the four reads  b = raw[offset++], g = ..., r = ..., a = depth 32 ? raw[offset++] : 255
ReadPixel(raw, offset, pixelDepth) ==
    [b |-> RawAt(raw, offset),
     g |-> RawAt(raw, offset + 1),
     r |-> RawAt(raw, offset + 2),
     a |-> IF pixelDepth = 32 THEN RawAt(raw, offset + 3) ELSE 255,
     next |-> IF pixelDepth = 32 THEN offset + 4 ELSE offset + 3,
     short |-> (IF pixelDepth = 32 THEN offset + 4 ELSE offset + 3) > Len(raw)]

\* a setPixel that keeps the stored row order
setPixel_NoFlip(pixels, index, width, height, r, g, b, a, isBottomToTop) ==
    LET pixelIdx == index * 4
    IN  SetIndex(SetIndex(SetIndex(SetIndex(pixels,
            pixelIdx, r), pixelIdx + 1, g), pixelIdx + 2, b), pixelIdx + 3, a)

setPixel(pixels, index, width, height, r, g, b, a, isBottomToTop) ==
    LET x == index % width
        y == index \div width
        targetY == IF isBottomToTop THEN height - 1 - y ELSE y
        pixelIdx == (targetY * width + x) * 4
    IN  SetIndex(SetIndex(SetIndex(SetIndex(pixels,
            pixelIdx, r), pixelIdx + 1, g), pixelIdx + 2, b), pixelIdx + 3, a)

\* for (i = 0; i < count; i++) setPixel(pixels, pixelIndex++, ..., r, g, b, a)
RECURSIVE RunPacket(_, _, _, _, _, _, _)
RunPacket(pixels, pixelIndex, count, width, height, px, isBottomToTop) ==
    IF count = 0 THEN pixels
    ELSE RunPacket(setPixel(pixels, pixelIndex, width, height,
                            px.r, px.g, px.b, px.a, isBottomToTop),
                   pixelIndex + 1, count - 1, width, height, px, isBottomToTop)

\* for (i = 0; i < count; i++) { read b,g,r,a; setPixel(pixels, pixelIndex++, ...) }
RECURSIVE RawPacket(_, _, _, _, _, _, _)
RawPacket(st, raw, count, width, height, pixelDepth, isBottomToTop) ==
    IF count = 0 THEN st
    ELSE LET px == ReadPixel(raw, st.offset, pixelDepth)
         IN  RawPacket([offset |-> px.next,
                        pixelIndex |-> st.pixelIndex + 1,
                        pixels |-> setPixel(st.pixels, st.pixelIndex, width, height,
                                            px.r, px.g, px.b, px.a, isBottomToTop),
                        underrun |-> st.underrun
                                      \/ (px.short /\ st.pixelIndex < width * height)],
                       raw, count - 1, width, height, pixelDepth, isBottomToTop)

\* a decoder that takes every packet for a literal one
IsRunPacket_Never(packetHeader) == FALSE

\* (packetHeader & 0x80) !== 0
IsRunPacket(packetHeader) == packetHeader >= 128

\* one iteration of  while (pixelIndex < totalPixels)
DecodeStep(st, raw, imageType, width, height, pixelDepth, isBottomToTop) ==
    IF imageType = 10
    THEN LET packetHeader == RawAt(raw, st.offset)
             hdr == IF packetHeader = Undefined THEN 0 ELSE packetHeader
             count == (hdr % 128) + 1
             isRLE == IsRunPacket(hdr)
             after == st.offset + 1
             noHdr == packetHeader = Undefined
         IN  IF isRLE
             THEN LET px == ReadPixel(raw, after, pixelDepth)
                  IN  [offset |-> px.next,
                       pixelIndex |-> st.pixelIndex + count,
                       pixels |-> RunPacket(st.pixels, st.pixelIndex, count, width,
                                            height, px, isBottomToTop),
                       underrun |-> st.underrun \/ px.short]
             ELSE RawPacket([st EXCEPT !.offset = after,
                                       !.underrun = st.underrun \/ noHdr],
                            raw, count, width, height, pixelDepth, isBottomToTop)
    ELSE RawPacket(st, raw, 1, width, height, pixelDepth, isBottomToTop)

RECURSIVE DecodeLoop(_, _, _, _, _, _, _)
DecodeLoop(st, raw, imageType, width, height, pixelDepth, isBottomToTop) ==
    IF st.pixelIndex < width * height
    THEN DecodeLoop(DecodeStep(st, raw, imageType, width, height, pixelDepth,
                               isBottomToTop),
                    raw, imageType, width, height, pixelDepth, isBottomToTop)
    ELSE st

\* a decoder that also lets the greyscale types through
SupportedType_WithGrey(imageType) == imageType \in {2, 3, 10, 11}

\* imageType !== 2 && imageType !== 10 is false
SupportedType(imageType) == imageType = 2 \/ imageType = 10

\* TGAConverter.decode(buffer)
TGADecode(buffer) ==
    IF Len(buffer) < 18 THEN Thrown("RangeError")
    ELSE LET idLength == buffer[1]
             imageType == buffer[3]
             width == GetUint16LE(buffer, 12)
             height == GetUint16LE(buffer, 14)
             pixelDepth == buffer[17]
             descriptor == buffer[18]
         IN  IF ~SupportedType(imageType) THEN Thrown("UnsupportedFormat")
             ELSE LET isBottomToTop == (descriptor \div 32) % 2 = 0
                      dataStart == 18 + idLength
                  IN  IF dataStart > Len(buffer) THEN Thrown("RangeError")
                      ELSE LET rawData == SubSeq(buffer, dataStart + 1, Len(buffer))
                               zero == [i \in 1..(width * height * 4) |-> 0]
                               fin == DecodeLoop([offset |-> 0, pixelIndex |-> 0,
                                                  pixels |-> zero, underrun |-> FALSE],
                                                 rawData, imageType, width, height,
                                                 pixelDepth, isBottomToTop)
                               made == NewImageData(fin.pixels, width, height)
                           IN  [made EXCEPT !.underrun = fin.underrun]

\* an encoder that writes the rows top to bottom
EncodedByte_TopDown(data, width, height, k) ==
    LET p == k \div 4
        c == k % 4
    IN  data[p * 4 + (CASE c = 0 -> 2 [] c = 1 -> 1 [] c = 2 -> 0 [] OTHER -> 3) + 1]

\* byte k (from 0) of the pixel section written by the two nested loops of
\* encode: rows y = height-1 .. 0, columns x = 0 .. width-1, channels B,G,R,A
EncodedByte(data, width, height, k) ==
    LET p == k \div 4
        c == k % 4
        y == height - 1 - (p \div width)
        x == p % width
        idx == (y * width + x) * 4
    IN  data[idx + (CASE c = 0 -> 2 [] c = 1 -> 1 [] c = 2 -> 0 [] OTHER -> 3) + 1]

\* an encoder that announces a top-to-bottom file
TGAHeader_TopLeft(width, height) ==
    <<0, 0, 2, 0, 0, 0, 0, 0, 0, 0, 0, 0>> \o SetUint16LE(width)
        \o SetUint16LE(height) \o <<32, 40>>

\* the 18 header bytes set by encode; the ArrayBuffer starts zeroed
TGAHeader(width, height) ==
    <<0, 0, 2, 0, 0, 0, 0, 0, 0, 0, 0, 0>> \o SetUint16LE(width)
        \o SetUint16LE(height) \o <<32, 8>>

\* the bytes encode writes for a buffer of the given data, width and height:
\* the header, then the pixel section
TGAEncodeBytes(data, width, height) ==
    [j \in 1..(18 + width * height * 4) |->
        IF j <= 18 THEN TGAHeader(width, height)[j]
        ELSE EncodedByte(data, width, height, j - 19)]

\* TGAConverter.encode(imageData), as the bytes of the Blob
TGAEncode(imageData) ==
    ReturnedBytes(TGAEncodeBytes(imageData.data, imageData.width, imageData.height))

---------------------------------------------------------------------------
(* Inputs of the TGA codec *)

\* pixels (R,G,B,A) the generated buffers are made of; the four channels of
\* a pixel differ and neighbouring pixels differ
Palette == << <<10, 20, 30, 255>>, <<200, 1, 3, 128>>, <<0, 64, 255, 0>>,
              <<255, 254, 253, 252>>, <<7, 100, 250, 1>> >>

PaletteAt(i) == Palette[(i % Len(Palette)) + 1]

\* RGBA bytes of a width x height buffer whose pixel i is PaletteAt(seed + i*step)
PatternData(width, height, seed, step) ==
    [j \in 1..(width * height * 4) |->
        PaletteAt(seed + ((j - 1) \div 4) * step)[((j - 1) % 4) + 1]]

PatternImage(width, height, seed, step) ==
    [width |-> width, height |-> height, data |-> PatternData(width, height, seed, step)]

\* a width the 16-bit header field cannot hold
WideW == U16Mod + 1

\* the buffers handed to encode, by width, height, seed and step
SmallSources == [width : 1..MaxW, height : 1..MaxH,
                 seed : 0..(Len(Palette) - 1), step : 1..2]
WideSources == [width : {WideW}, height : {1}, seed : {0}, step : {1}]
                   \cup [width : {1}, height : {WideW}, seed : {0}, step : {1}]
ImageSources == SmallSources \cup WideSources
NoSource == [width |-> 0, height |-> 0, seed |-> 0, step |-> 0]

ImageOf(src) == PatternImage(src.width, src.height, src.seed, src.step)

\* TGAEncode(ImageOf(src)).bytes
EncodedOf(src) ==
    TGAEncodeBytes(PatternData(src.width, src.height, src.seed, src.step),
                   src.width, src.height)

SmallImages == {ImageOf(src) : src \in SmallSources}

\* n stored pixels B,G,R[,A], pixel i being PaletteAt(seed + i)
StoredPixels(n, pixelDepth, seed) ==
    LET bpp == IF pixelDepth = 32 THEN 4 ELSE 3
    IN  [j \in 1..(n * bpp) |->
            LET px == PaletteAt(seed + ((j - 1) \div bpp))
                c == (j - 1) % bpp
            IN  px[CASE c = 0 -> 3 [] c = 1 -> 2 [] c = 2 -> 1 [] OTHER -> 4]]

\* one RLE packet: header byte, then one pixel (run) or count pixels (literal)
PacketBytes(pk, pixelDepth, seed) ==
    <<(IF pk.rle THEN 128 ELSE 0) + (pk.count - 1)>>
        \o StoredPixels(IF pk.rle THEN 1 ELSE pk.count, pixelDepth, seed)

\* a generated packet holds one pixel or MaxRun pixels
Packets == [rle : BOOLEAN, count : {1, MaxRun}]

PacketSeqs == UNION {[1..n -> Packets] : n \in 0..MaxPackets}

RECURSIVE PacketStream(_, _, _)
PacketStream(pks, pixelDepth, seed) ==
    IF pks = <<>> THEN <<>>
    ELSE PacketBytes(Head(pks), pixelDepth, seed)
            \o PacketStream(Tail(pks), pixelDepth, seed + 2)

DropLast(bytes, cut) == SubSeq(bytes, 1, Max(0, Len(bytes) - cut))

\* pixel data of a file: whole or cut short, enough for the image or not
Payloads(imageType, pixelDepth) ==
    IF imageType = 10
    THEN {DropLast(PacketStream(pks, pixelDepth, 0), cut) :
              pks \in PacketSeqs, cut \in 0..MaxCut}
    ELSE {DropLast(StoredPixels(n, pixelDepth, 1), cut) :
              n \in 0..(MaxW * MaxH), cut \in 0..MaxCut}

Depths == {24, 32}
Descriptors == {8, 40}
OtherTypes == {0, 1, 3, 9, 11}

MakeTGA(idLength, imageType, width, height, pixelDepth, descriptor, payload) ==
    <<idLength, 0, imageType, 0, 0, 0, 0, 0, 0, 0, 0, 0>>
        \o SetUint16LE(width) \o SetUint16LE(height) \o <<pixelDepth, descriptor>>
        \o [i \in 1..idLength |-> 77] \o payload

\* files of the two supported types
TruecolorTGAFiles ==
    UNION {{MakeTGA(l, t, w, h, d, ds, pl) : pl \in Payloads(t, d)} :
              l \in 0..1, t \in {2, 10}, w \in 1..MaxW, h \in 1..MaxH,
              d \in Depths, ds \in Descriptors}

\* files of other types, with and without pixel data
OtherTGAFiles ==
    {MakeTGA(l, t, w, 1, d, 8, StoredPixels(n, d, 0)) :
         l \in 0..1, t \in OtherTypes, w \in 1..MaxW, d \in Depths, n \in 0..MaxW}

\* files that announce no pixels
EmptyTGAFiles ==
    {MakeTGA(0, t, dim[1], dim[2], 32, 8, StoredPixels(n, 32, 0)) :
         t \in {2, 10}, dim \in {<<0, 0>>, <<0, 1>>, <<1, 0>>}, n \in 0..1}

\* files that end inside the header or inside the ID block
ShortTGAFiles ==
    {SubSeq(MakeTGA(l, t, 1, 1, 32, 8, <<>>), 1, n) :
         l \in 0..1, t \in {1, 2, 10}, n \in {0, 3, 17, 18}}

\* the 2x1 file of two BGRA pixels, red opaque and blue half transparent
ScenarioTGA == MakeTGA(0, 2, 2, 1, 32, 8, <<0, 0, 255, 255, 255, 0, 0, 128>>)

TGAFiles == TruecolorTGAFiles \cup OtherTGAFiles \cup EmptyTGAFiles \cup ShortTGAFiles
                \cup {ScenarioTGA}

---------------------------------------------------------------------------
(* A component that takes no part in a specification stays as constructed *)

TGAUnused ==
    /\ tgaFile = NoBytes
    /\ srcImage = NoSource
    /\ tgaDecoded = Idle
    /\ tgaEncoded = NoBlob
    /\ tgaRound = Idle
    /\ tgaReencoded = Idle

BLPUnused ==
    /\ blpFile = NoBytes
    /\ blpDecoded = Idle
    /\ jpegCalls = <<>>
    /\ jpegImage = NoImage

FxUnused ==
    /\ fxImage = NoImage
    /\ fxFormulas = NoFormulas
    /\ fxGlobals = NoGlobals
    /\ fxResult = FxIdle

AppUnused ==
    /\ heap = <<>>
    /\ activeTexture = NoTexture
    /\ appFormulas = NoFormulas
    /\ formulaError = ""
    /\ globals = NoGlobals
    /\ loadedData = NoBytes
    /\ lastRun = NoRun
    /\ prevRun = NoRun

SwapUnused ==
    /\ swapImage = NoImage
    /\ swapOriginal = NoBytes
    /\ swapCount = 0

EncUnused ==
    /\ encCanvas = NoImage
    /\ encTemp = NoImage
    /\ encJpeg = NoBytes
    /\ blpEncoded = Idle
    /\ encStream = Idle

---------------------------------------------------------------------------
(* The TGA codec as a state machine: a file is decoded, or a buffer is     *)
(* encoded and the bytes written are decoded again                         *)

InitTGA ==
    /\ \/ tgaFile \in TGAFiles /\ srcImage = NoSource
       \/ tgaFile = NoBytes /\ srcImage \in ImageSources
    /\ tgaDecoded = Idle
    /\ tgaEncoded = NoBlob
    /\ tgaRound = Idle
    /\ tgaReencoded = Idle
    /\ BLPUnused
    /\ FxUnused
    /\ AppUnused
    /\ SwapUnused
    /\ EncUnused

DecodeTGAFile ==
    /\ srcImage = NoSource
    /\ tgaDecoded.status = "idle"
    /\ tgaDecoded' = TGADecode(tgaFile)
    /\ UNCHANGED <<tgaFile, srcImage, tgaEncoded, tgaRound, tgaReencoded, blpVars, fxVars, appVars, swapVars, encVars>>

EncodeTGAImage ==
    /\ srcImage # NoSource
    /\ tgaEncoded.status = "idle"
    /\ tgaEncoded' = Blob(EncodedOf(srcImage))
    /\ UNCHANGED <<tgaFile, srcImage, tgaDecoded, tgaRound, tgaReencoded, blpVars, fxVars, appVars, swapVars, encVars>>

DecodeTGAEncoded ==
    /\ tgaEncoded.status = "ok"
    /\ tgaRound.status = "idle"
    /\ tgaRound' = TGADecode(EncodedOf(srcImage))
    /\ UNCHANGED <<tgaFile, srcImage, tgaDecoded, tgaEncoded, tgaReencoded, blpVars, fxVars, appVars, swapVars, encVars>>

\* the buffer decoded from the file is saved as TGA again
ReencodeTGADecoded ==
    /\ tgaDecoded.status = "ok"
    /\ tgaReencoded.status = "idle"
    /\ tgaReencoded' = TGAEncode(tgaDecoded.img)
    /\ UNCHANGED <<tgaFile, srcImage, tgaDecoded, tgaEncoded, tgaRound,
                   blpVars, fxVars, appVars, swapVars, encVars>>

NextTGA == DecodeTGAFile \/ EncodeTGAImage \/ DecodeTGAEncoded \/ ReencodeTGADecoded

SpecTGA == InitTGA /\ [][NextTGA]_vars

---------------------------------------------------------------------------
(* BLPConverter *)

\* DataView.setUint32(_, n, true), low byte first.  Every n of this model is
\* below 2^31 (the largest integer of the model checker), where the reduction
\* modulo 2^32 changes nothing.
SetUint32LE(n) ==
    << n % 256, (n \div 256) % 256, (n \div 65536) % 256, (n \div 16777216) % 256 >>

\* DataView.getUint32(off, true)
GetUint32LE(buf, off) ==
    buf[off + 1] + 256 * buf[off + 2] + 65536 * buf[off + 3] + 16777216 * buf[off + 4]

\* char codes of 'BLP1' and 'BLP2'
MagicBLP1 == <<66, 76, 80, 49>>
MagicBLP2 == <<66, 76, 80, 50>>

\* a decoder that knows BLP1 only
MagicAccepted_BLP1Only(magic) == magic = MagicBLP1

\* a decoder that compares the first three characters only
MagicAccepted_Prefix(magic) == SubSeq(magic, 1, 3) = SubSeq(MagicBLP1, 1, 3)

\* magic !== 'BLP1' && magic !== 'BLP2' is false
MagicAccepted(magic) == magic = MagicBLP1 \/ magic = MagicBLP2

\* new Uint8Array(buffer, byteOffset, length) is within the buffer
InRange(buffer, byteOffset, length) == byteOffset + length <= Len(buffer)

\* a view that starts one byte early
Slice_OneEarly(buffer, byteOffset, length) == SubSeq(buffer, byteOffset, byteOffset + length - 1)

\* new Uint8Array(buffer, byteOffset, length)
Slice(buffer, byteOffset, length) == SubSeq(buffer, byteOffset + 1, byteOffset + length)

\* the loop of swapRBChannels from byte i on
RECURSIVE swapFrom(_, _)
swapFrom(data, i) ==
    IF i < Len(data)
    THEN swapFrom([data EXCEPT ![i + 1] = data[i + 3], ![i + 3] = data[i + 1]], i + 4)
    ELSE data

\* a swap that copies B over R and leaves B as it was
swapRBChannels_Overwrite(imageData) ==
    [imageData EXCEPT !.data = [j \in 1..Len(imageData.data) |->
        IF j % 4 = 1 THEN imageData.data[j + 2] ELSE imageData.data[j]]]

\* BLPConverter.swapRBChannels(imageData), as the image it leaves
swapRBChannels(imageData) == [imageData EXCEPT !.data = swapFrom(imageData.data, 0)]

\* BLPConverter.decode up to the call of imageToImageData: the JPEG stream
\* handed to the collaborator, or the error thrown before it
BLPJpegStream(buffer) ==
    IF Len(buffer) < 4 THEN Thrown("RangeError")
    ELSE IF ~MagicAccepted(SubSeq(buffer, 1, 4)) THEN Thrown("InvalidFormat")
    ELSE IF Len(buffer) < 96 THEN Thrown("RangeError")
    ELSE LET type == GetUint32LE(buffer, 4)
             offset == GetUint32LE(buffer, 28)
             size == GetUint32LE(buffer, 92)
         IN  IF type # 0 THEN Thrown("UnsupportedFormat")
             ELSE IF Len(buffer) < 160 THEN Thrown("RangeError")
             ELSE LET jpegHeaderSize == GetUint32LE(buffer, 156)
                  IN  IF jpegHeaderSize > 0
                      THEN IF InRange(buffer, 160, jpegHeaderSize)
                              /\ InRange(buffer, offset, size)
                           THEN ReturnedBytes(Slice(buffer, 160, jpegHeaderSize)
                                                \o Slice(buffer, offset, size))
                           ELSE Thrown("RangeError")
                      ELSE IF InRange(buffer, offset, size)
                           THEN ReturnedBytes(Slice(buffer, offset, size))
                           ELSE Thrown("RangeError")

\* a decoder that swaps for the BLP1 magic only
BLPAfterJpeg_BLP1Only(magic, imageData) ==
    IF magic = MagicBLP1 THEN Returned(swapRBChannels(imageData)) ELSE Returned(imageData)

\* BLPConverter.decode after imageToImageData resolved with imageData
BLPAfterJpeg(magic, imageData) == Returned(swapRBChannels(imageData))

\* what toBlob hands back when it cannot make a JPEG: null
NoJpeg == <<Undefined>>

\* DataView.setUint32(off, n, true) on the bytes buf
PutUint32LE(buf, off, n) ==
    [j \in 1..Len(buf) |->
        IF j - 1 >= off /\ j - 1 < off + 4 THEN SetUint32LE(n)[j - off] ELSE buf[j]]

\* for (let i = 1; i < 16; i++) view.setUint32(base + i * 4, 0, true), from i on
RECURSIVE ZeroMips(_, _, _)
ZeroMips(buf, base, i) ==
    IF i < 16 THEN ZeroMips(PutUint32LE(buf, base + i * 4, 0), base, i + 1) ELSE buf

\* const headerSize = 156
headerSize == 156

\* an encoder that takes the header to end at headerSize
firstMipOffset_HeaderSize == headerSize

\* const firstMipOffset = 160
firstMipOffset == 160

\* the header encode builds: new ArrayBuffer(headerSize + 4), zeroed, then
\* the magic and the field writes in the order of the code
BLPHeader(width, height, jpegLength) ==
    LET h0 == [j \in 1..(headerSize + 4) |-> IF j <= 4 THEN MagicBLP1[j] ELSE 0]
        h1 == PutUint32LE(h0, 4, 0)
        h2 == PutUint32LE(h1, 8, 8)
        h3 == PutUint32LE(h2, 12, width)
        h4 == PutUint32LE(h3, 16, height)
        h5 == PutUint32LE(h4, 20, 5)
        h6 == PutUint32LE(h5, 24, 1)
        h7 == ZeroMips(PutUint32LE(h6, 28, firstMipOffset), 28, 1)
        h8 == ZeroMips(PutUint32LE(h7, 92, jpegLength), 92, 1)
    IN  PutUint32LE(h8, 156, 0)

\* BLPConverter.encode(canvas): idata is what ctx.getImageData(0, 0, width,
\* height) reads from the canvas (it throws for an empty canvas), jpegData
\* what toBlob made of the temporary canvas
BLPEncode(idata, jpegData) ==
    IF idata.width = 0 \/ idata.height = 0 THEN Thrown("IndexSizeError")
    ELSE IF jpegData = NoJpeg THEN Thrown("JpegFailed")
    ELSE ReturnedBytes(BLPHeader(idata.width, idata.height, Len(jpegData)) \o jpegData)

---------------------------------------------------------------------------
(* Inputs of the BLP codec *)

BLPMagics == {MagicBLP1, MagicBLP2, <<66, 76, 80, 48>>, <<98, 108, 112, 49>>}
BLPTypes == {0, 1, 256}
BLPOffsets == {160, 162}
BLPSizes == {0, 2, 5}
BLPHeaderSizes == {0, 2}

MakeBLP(magic, type, width, height, offset, size, jpegHeaderSize, tailLen) ==
    magic \o SetUint32LE(type) \o SetUint32LE(8) \o SetUint32LE(width)
        \o SetUint32LE(height) \o SetUint32LE(5) \o SetUint32LE(1)
        \o SetUint32LE(offset) \o [i \in 1..60 |-> IF i % 4 = 1 THEN 160 ELSE 0]
        \o SetUint32LE(size) \o [i \in 1..60 |-> IF i % 4 = 1 THEN 3 ELSE 0]
        \o SetUint32LE(jpegHeaderSize) \o [i \in 1..tailLen |-> 200 + i]

FullBLPFiles ==
    {MakeBLP(m, t, w, 1, o, sz, hs, tl) :
        m \in BLPMagics, t \in BLPTypes, w \in 1..2, o \in BLPOffsets,
        sz \in BLPSizes, hs \in BLPHeaderSizes, tl \in 0..MaxTail}

\* files that end inside the header
ShortBLPFiles ==
    {SubSeq(MakeBLP(m, t, 1, 1, 160, 0, 0, 0), 1, n) :
        m \in BLPMagics, t \in BLPTypes, n \in {0, 3, 4, 8, 95, 96, 159}}

BLPFiles == FullBLPFiles \cup ShortBLPFiles

\* what the JPEG collaborator may resolve with; NoImage stands for its
\* rejection (img.onerror, or no canvas context)
JpegOutcomes == {PatternImage(w, h, s, 1) : w \in 1..MaxW, h \in 1..MaxH, s \in 0..1}
                    \cup {NoImage}

---------------------------------------------------------------------------
(* The BLP decoder as a state machine *)

InitBLP ==
    /\ blpFile \in BLPFiles
    /\ blpDecoded = Idle
    /\ jpegCalls = <<>>
    /\ jpegImage = NoImage
    /\ TGAUnused
    /\ FxUnused
    /\ AppUnused
    /\ SwapUnused
    /\ EncUnused

\* decode throws before it reaches the JPEG collaborator
DecodeBLPRejected ==
    /\ blpDecoded.status = "idle"
    /\ BLPJpegStream(blpFile).status = "error"
    /\ blpDecoded' = BLPJpegStream(blpFile)
    /\ UNCHANGED <<blpFile, jpegCalls, jpegImage, tgaVars, fxVars, appVars, swapVars, encVars>>

\* decode hands the stream to the collaborator, which resolves with outcome
\* or rejects
DecodeBLPJpeg(outcome) ==
    /\ blpDecoded.status = "idle"
    /\ BLPJpegStream(blpFile).status = "ok"
    /\ jpegCalls' = Append(jpegCalls, BLPJpegStream(blpFile).bytes)
    /\ jpegImage' = outcome
    /\ blpDecoded' = IF outcome = NoImage THEN Thrown("ImageLoadFailed")
                     ELSE BLPAfterJpeg(SubSeq(blpFile, 1, 4), outcome)
    /\ UNCHANGED <<blpFile, tgaVars, fxVars, appVars, swapVars, encVars>>

NextBLP == DecodeBLPRejected \/ \E outcome \in JpegOutcomes : DecodeBLPJpeg(outcome)

SpecBLP == InitBLP /\ [][NextBLP]_vars

---------------------------------------------------------------------------
(* The BLP encoder as a state machine: a canvas is encoded and the bytes   *)
(* written are read back by decode up to its call of the JPEG collaborator *)

\* canvases handed to encode; one of them is empty
EncCanvases == SmallImages \cup {[width |-> 0, height |-> 1, data |-> <<>>]}

\* JPEG streams the collaborator may make, of 1..MaxTail bytes that do not
\* occur in the header, and its failure
JpegStreams == {[j \in 1..n |-> 255 - ((j * k) % 7)] : n \in 1..MaxTail, k \in 1..3}
                   \cup {NoJpeg}

InitEnc ==
    /\ encCanvas \in EncCanvases
    /\ encTemp = NoImage
    /\ encJpeg = NoBytes
    /\ blpEncoded = Idle
    /\ encStream = Idle
    /\ TGAUnused
    /\ BLPUnused
    /\ FxUnused
    /\ AppUnused
    /\ SwapUnused

\* encode: the canvas pixels are swapped and put on the temporary canvas,
\* the collaborator turns it into jpegData, header and jpegData are joined
EncodeBLP(jpegData) ==
    /\ blpEncoded.status = "idle"
    /\ encTemp' = IF encCanvas.width = 0 THEN NoImage ELSE swapRBChannels(encCanvas)
    /\ encJpeg' = IF encCanvas.width = 0 THEN NoBytes ELSE jpegData
    /\ blpEncoded' = BLPEncode(encCanvas, jpegData)
    /\ UNCHANGED <<encCanvas, encStream, tgaVars, blpVars, fxVars, appVars, swapVars>>

\* decode on the bytes encode returned, up to the call of the collaborator
DecodeBLPEncoded ==
    /\ blpEncoded.status = "ok"
    /\ encStream.status = "idle"
    /\ encStream' = BLPJpegStream(blpEncoded.bytes)
    /\ UNCHANGED <<encCanvas, encTemp, encJpeg, blpEncoded,
                   tgaVars, blpVars, fxVars, appVars, swapVars>>

NextEnc == (\E jpegData \in JpegStreams : EncodeBLP(jpegData)) \/ DecodeBLPEncoded

SpecEnc == InitEnc /\ [][NextEnc]_vars

---------------------------------------------------------------------------
(* swapRBChannels called again and again on one ImageData, as decode and   *)
(* encode call it on the buffers that pass through them                    *)

\* buffers of any content, alpha included
SwapImages == SmallImages
                 \cup {PatternImage(w, h, s, 3) : w \in 1..MaxW, h \in 1..MaxH, s \in 0..2}

InitSwap ==
    /\ swapImage \in SwapImages
    /\ swapOriginal = swapImage.data
    /\ swapCount = 0
    /\ TGAUnused
    /\ BLPUnused
    /\ FxUnused
    /\ AppUnused
    /\ EncUnused

\* this.swapRBChannels(imageData)
SwapRB ==
    /\ swapCount < MaxSwaps
    /\ swapImage' = swapRBChannels(swapImage)
    /\ swapCount' = swapCount + 1
    /\ UNCHANGED <<swapOriginal, tgaVars, blpVars, fxVars, appVars, encVars>>

NextSwap == SwapRB

SpecSwap == InitSwap /\ [][NextSwap]_vars

---------------------------------------------------------------------------
(* ImageProcessor: the values of the expression language *)

\* A finite number is held exactly as a count of 1/Den; every formula of
\* FormulaSets has dyadic constants and stays within halves, as the doubles
\* of the code do
Den == 2

Num(v)    == [k |-> "num", v |-> v]
NaN       == [k |-> "nan", v |-> 0]
Inf(sign) == [k |-> "inf", v |-> sign]
BigInt(n) == [k |-> "bigint", v |-> n]
Bool(b)   == [k |-> "bool", v |-> IF b THEN 1 ELSE 0]
Throw     == [k |-> "throw", v |-> 0]

Sign(v) == IF v > 0 THEN 1 ELSE IF v < 0 THEN 0 - 1 ELSE 0
Abs(v) == IF v < 0 THEN 0 - v ELSE v

\* ToNumber of a boolean operand
ToNum(x) == IF x.k = "bool" THEN Num(x.v * Den) ELSE x

\* x + y
AddV(x0, y0) ==
    LET x == ToNum(x0)
        y == ToNum(y0)
    IN  IF x.k = "bigint" \/ y.k = "bigint"
        THEN IF x.k = y.k THEN BigInt(x.v + y.v) ELSE Throw
        ELSE IF x.k = "nan" \/ y.k = "nan" THEN NaN
        ELSE IF x.k = "inf" THEN IF y.k = "inf" /\ y.v # x.v THEN NaN ELSE x
        ELSE IF y.k = "inf" THEN y
        ELSE Num(x.v + y.v)

\* x - y
SubV(x0, y0) ==
    LET x == ToNum(x0)
        y == ToNum(y0)
    IN  IF x.k = "bigint" \/ y.k = "bigint"
        THEN IF x.k = y.k THEN BigInt(x.v - y.v) ELSE Throw
        ELSE IF x.k = "nan" \/ y.k = "nan" THEN NaN
        ELSE IF x.k = "inf" THEN IF y.k = "inf" /\ y.v = x.v THEN NaN ELSE x
        ELSE IF y.k = "inf" THEN Inf(0 - y.v)
        ELSE Num(x.v - y.v)

\* x * y
MulV(x0, y0) ==
    LET x == ToNum(x0)
        y == ToNum(y0)
    IN  IF x.k = "bigint" \/ y.k = "bigint"
        THEN IF x.k = y.k THEN BigInt(x.v * y.v) ELSE Throw
        ELSE IF x.k = "nan" \/ y.k = "nan" THEN NaN
        ELSE IF x.k = "inf" \/ y.k = "inf"
             THEN IF Sign(x.v) * Sign(y.v) = 0 THEN NaN ELSE Inf(Sign(x.v) * Sign(y.v))
        ELSE Num((x.v * y.v) \div Den)

\* x / y  (a zero divisor is +0)
DivV(x0, y0) ==
    LET x == ToNum(x0)
        y == ToNum(y0)
    IN  IF x.k = "bigint" \/ y.k = "bigint"
        THEN IF x.k = y.k /\ y.v # 0
             THEN BigInt(Sign(x.v) * Sign(y.v) * (Abs(x.v) \div Abs(y.v)))
             ELSE Throw
        ELSE IF x.k = "nan" \/ y.k = "nan" THEN NaN
        ELSE IF x.k = "inf"
             THEN IF y.k = "inf" THEN NaN ELSE Inf(IF y.v < 0 THEN 0 - x.v ELSE x.v)
        ELSE IF y.k = "inf" THEN Num(0)
        ELSE IF y.v = 0 THEN IF x.v = 0 THEN NaN ELSE Inf(Sign(x.v))
        ELSE Num((x.v * Den) \div y.v)

\* the numeric value compared by x > y, in units of 1/Den
Magnitude(x) == IF x.k = "bigint" THEN x.v * Den ELSE x.v

\* x > y as a boolean of the model
Greater(x0, y0) ==
    LET x == ToNum(x0)
        y == ToNum(y0)
    IN  IF x.k = "nan" \/ y.k = "nan" THEN FALSE
        ELSE IF x.k = "inf" THEN x.v = 1 /\ ~(y.k = "inf" /\ y.v = 1)
        ELSE IF y.k = "inf" THEN y.v = 0 - 1
        ELSE Magnitude(x) > Magnitude(y)

\* Math.min(x, y): ToNumber of a BigInt throws a TypeError
MathMin(x0, y0) ==
    LET x == ToNum(x0)
        y == ToNum(y0)
    IN  IF x.k = "bigint" \/ y.k = "bigint" THEN Throw
        ELSE IF x.k = "nan" \/ y.k = "nan" THEN NaN
        ELSE IF Greater(x, y) THEN y ELSE x

\* Math.max(x, y)
MathMax(x0, y0) ==
    LET x == ToNum(x0)
        y == ToNum(y0)
    IN  IF x.k = "bigint" \/ y.k = "bigint" THEN Throw
        ELSE IF x.k = "nan" \/ y.k = "nan" THEN NaN
        ELSE IF Greater(y, x) THEN y ELSE x

\* ToBoolean of the condition of c ? t : f
Truthy(x) == x.k = "inf" \/ (x.k \in {"bool", "num", "bigint"} /\ x.v # 0)

\* an operand that threw ends the evaluation of the expression
Strict(x, y, result) == IF x.k = "throw" THEN x ELSE IF y.k = "throw" THEN y ELSE result

---------------------------------------------------------------------------
(* ImageProcessor: expressions *)

V(name)       == [op |-> "var", name |-> name]
K(n)          == [op |-> "num", v |-> n * Den]
Half(n)       == [op |-> "num", v |-> n]
Big(n)        == [op |-> "big", v |-> n]
Bin(op, l, r) == [op |-> op, l |-> l, r |-> r]
If(c, t, f)   == [op |-> "cond", c |-> c, t |-> t, f |-> f]
SyntaxError   == [op |-> "syntax"]

\* what `new Function` makes of the source text spliced after `const n_ =`:
\* the expressions of the formula language this model covers, and texts that
\* are not expressions
Parse(text) ==
    CASE text = "r" -> V("r")
      [] text = "g" -> V("g")
      [] text = "b" -> V("b")
      [] text = "a" -> V("a")
      [] text = "x" -> V("x")
      [] text = "r*2" -> Bin("mul", V("r"), K(2))
      [] text = "r*1.5" -> Bin("mul", V("r"), Half(3))
      [] text = "g/2" -> Bin("div", V("g"), K(2))
      [] text = "b/2" -> Bin("div", V("b"), K(2))
      [] text = "r/0" -> Bin("div", V("r"), K(0))
      [] text = "(r-10)/0" -> Bin("div", Bin("sub", V("r"), K(10)), K(0))
      [] text = "255-r" -> Bin("sub", K(255), V("r"))
      [] text = "255-g" -> Bin("sub", K(255), V("g"))
      [] text = "255-b" -> Bin("sub", K(255), V("b"))
      [] text = "(r-128)*1.5+128" ->
            Bin("add", Bin("mul", Bin("sub", V("r"), K(128)), Half(3)), K(128))
      [] text = "(g-128)*1.5+128" ->
            Bin("add", Bin("mul", Bin("sub", V("g"), K(128)), Half(3)), K(128))
      [] text = "r > 200 ? 255 : 0" -> If(Bin("gt", V("r"), K(200)), K(255), K(0))
      [] text = "r > 100 ? x : g" -> If(Bin("gt", V("r"), K(100)), V("x"), V("g"))
      [] text = "r > 100 ? 1n : a" -> If(Bin("gt", V("r"), K(100)), Big(1), V("a"))
      [] text = "Math.min(255, a*2)" -> Bin("min", K(255), Bin("mul", V("a"), K(2)))
      [] text = "1n" -> Big(1)
      [] text = "r + 1n" -> Bin("add", V("r"), Big(1))
      [] OTHER -> SyntaxError

\* the value of an expression in the scope env: the parameters r, g, b, a of
\* the pixel and the names of the global scope; an identifier that is in
\* neither raises a ReferenceError
RECURSIVE Eval(_, _)
Eval(e, env) ==
    CASE e.op = "var" -> IF e.name \in DOMAIN env THEN Num(env[e.name] * Den) ELSE Throw
      [] e.op = "num" -> Num(e.v)
      [] e.op = "big" -> BigInt(e.v)
      [] e.op = "add" -> LET x == Eval(e.l, env) y == Eval(e.r, env) IN Strict(x, y, AddV(x, y))
      [] e.op = "sub" -> LET x == Eval(e.l, env) y == Eval(e.r, env) IN Strict(x, y, SubV(x, y))
      [] e.op = "mul" -> LET x == Eval(e.l, env) y == Eval(e.r, env) IN Strict(x, y, MulV(x, y))
      [] e.op = "div" -> LET x == Eval(e.l, env) y == Eval(e.r, env) IN Strict(x, y, DivV(x, y))
      [] e.op = "min" -> LET x == Eval(e.l, env) y == Eval(e.r, env) IN Strict(x, y, MathMin(x, y))
      [] e.op = "gt"  -> LET x == Eval(e.l, env) y == Eval(e.r, env)
                         IN  Strict(x, y, Bool(Greater(x, y)))
      [] e.op = "cond" -> LET c == Eval(e.c, env)
                          IN  IF c.k = "throw" THEN c
                              ELSE IF Truthy(c) THEN Eval(e.t, env)
                              ELSE Eval(e.f, env)
      [] OTHER -> Throw

---------------------------------------------------------------------------
(* ImageProcessor.applyFormulas *)

Channels == <<"r", "g", "b", "a">>

\* a splice that falls back to 'r' for every channel
ChannelSource_FallbackR(formulas, c) == IF formulas[c] = "" THEN "r" ELSE formulas[c]

\* ${formulas.r || 'r'}: the text spliced in for channel c
ChannelSource(formulas, c) == IF formulas[c] = "" THEN c ELSE formulas[c]

\* a compilation that notices an ill-formed red expression only
CompileFails_RedOnly(formulas) == Parse(ChannelSource(formulas, "r")).op = "syntax"

\* new Function(...) throws a SyntaxError: one of the four spliced texts is
\* not an expression
CompileFails(formulas) ==
    \E i \in 1..4 : Parse(ChannelSource(formulas, Channels[i])).op = "syntax"

\* compiledShader(r, g, b, a, Math): the four values, or [r, g, b, a] when
\* one of the four expressions threw inside the function's own try
Shader(formulas, env) ==
    LET out == [i \in 1..4 |-> Eval(Parse(ChannelSource(formulas, Channels[i])), env)]
    IN  IF \E i \in 1..4 : out[i].k = "throw"
        THEN [i \in 1..4 |-> Num(env[Channels[i]] * Den)]
        ELSE out

\* Math.min(255, Math.max(0, v)); Throw is the TypeError of a BigInt operand
ClampV(v) ==
    LET low == MathMax(Num(0), v)
    IN  IF low.k = "throw" THEN low ELSE MathMin(Num(255 * Den), low)

\* a store that rounds a tie upwards, as Math.round does
ToUint8Clamp_HalfUp(x) ==
    IF x.k = "nan" THEN 0
    ELSE IF x.k = "inf" THEN IF x.v > 0 THEN 255 ELSE 0
    ELSE IF x.v <= 0 THEN 0
    ELSE IF x.v >= 255 * Den THEN 255
    ELSE (2 * x.v + Den) \div (2 * Den)

\* the store of a number into a Uint8ClampedArray: NaN is 0, otherwise
\* clamp to [0,255] and round to the nearest integer, a tie to the even one
ToUint8Clamp(x) ==
    IF x.k = "nan" THEN 0
    ELSE IF x.k = "inf" THEN IF x.v > 0 THEN 255 ELSE 0
    ELSE IF x.v <= 0 THEN 0
    ELSE IF x.v >= 255 * Den THEN 255
    ELSE LET f == x.v \div Den
             rest == x.v % Den
         IN  IF 2 * rest < Den THEN f
             ELSE IF 2 * rest > Den THEN f + 1
             ELSE IF f % 2 = 0 THEN f ELSE f + 1

\* the four stores data[i+c] = clamp(out[c]) of one pixel from channel c on;
\* a clamp that throws leaves the loop
RECURSIVE StorePixel(_, _, _, _)
StorePixel(st, i, out, c) ==
    IF c > 4 THEN st
    ELSE LET cv == ClampV(out[c])
         IN  IF cv.k = "throw" THEN [st EXCEPT !.error = "TypeError"]
             ELSE StorePixel([st EXCEPT !.data[i + c] = ToUint8Clamp(cv),
                                        !.stored = st.stored + 1],
                             i, out, c + 1)

\* what the body of compiledShader sees: its parameters, which hide global
\* names, and behind them the global scope (new Function compiles its body
\* in the global scope)
Scope(r, g, b, a, scope) == [r |-> r, g |-> g, b |-> b, a |-> a] @@ scope

\* for (i = 0; i < len; i += 4) { ... }
RECURSIVE FormulaLoop(_, _, _)
FormulaLoop(st, formulas, i) ==
    IF i >= Len(st.data) \/ st.error # "" THEN st
    ELSE LET env == Scope(st.data[i + 1], st.data[i + 2], st.data[i + 3],
                          st.data[i + 4], st.globals)
         IN  FormulaLoop(StorePixel(st, i, Shader(formulas, env), 1), formulas, i + 4)

\* ImageProcessor.applyFormulas(originalData, formulas), called while the
\* global scope is scope: the { data, error } returned (error "" for none);
\* stored counts the channel stores made
ApplyFormulas(originalData, formulas, scope) ==
    LET start == [data |-> originalData.data, error |-> "", stored |-> 0,
                  globals |-> scope]
        fin == IF CompileFails(formulas) THEN [start EXCEPT !.error = "SyntaxError"]
               ELSE FormulaLoop(start, formulas, 0)
    IN  [status |-> "ok",
         data |-> [width |-> originalData.width, height |-> originalData.height,
                   data |-> fin.data],
         error |-> fin.error,
         stored |-> fin.stored]

---------------------------------------------------------------------------
(* Inputs of the evaluator *)

F(r, g, b, a) == [r |-> r, g |-> g, b |-> b, a |-> a]

\* the presets of the application with dyadic constants, and formula sets
\* with empty, undefined, non-numeric and ill-formed expressions
FormulaSets == {
    F("r", "g", "b", "a"),
    F("b", "g", "r", "a"),
    F("255-r", "255-g", "255-b", "a"),
    F("(r-128)*1.5+128", "(g-128)*1.5+128", "(g-128)*1.5+128", "a"),
    F("r > 200 ? 255 : 0", "g", "b", "a"),
    F("r", "g", "b", "Math.min(255, a*2)"),
    F("r*2", "g", "b", "a"),
    F("r*1.5", "g/2", "b/2", "a"),
    F("", "", "", ""),
    F("", "g/2", "", "a"),
    F("r*2", "", "r", ""),
    F("r/0", "(r-10)/0", "b", "a"),
    F("r*2", "x", "b", "a"),
    F("r*2", "r > 100 ? x : g", "255-b", "a"),
    F("r + 1n", "255-g", "b", "a"),
    F("r*2", "g", "b", "1n"),
    F("r*2", "g", "b", "r > 100 ? 1n : a"),
    F("r +", "255-g", "b", "a"),
    F("r*2", "g", "b", "(a"),
    F("r*2", "g", "r r", "x") }

FxImages == SmallImages

\* global scopes: nothing named x, or a global x holding 7
GlobalScopes == {NoGlobals, [x |-> 7]}

---------------------------------------------------------------------------
(* The evaluator as a state machine *)

InitFx ==
    /\ fxImage \in FxImages
    /\ fxFormulas \in FormulaSets
    /\ fxGlobals \in GlobalScopes
    /\ fxResult = FxIdle
    /\ TGAUnused
    /\ BLPUnused
    /\ AppUnused
    /\ SwapUnused
    /\ EncUnused

ApplyFx ==
    /\ fxResult.status = "idle"
    /\ fxResult' = ApplyFormulas(fxImage, fxFormulas, fxGlobals)
    /\ UNCHANGED <<fxImage, fxFormulas, fxGlobals, tgaVars, blpVars, appVars, swapVars, encVars>>

NextFx == ApplyFx

SpecFx == InitFx /\ [][NextFx]_vars

---------------------------------------------------------------------------
(* The application around applyFormulas: ImageData objects live in a heap  *)
(* of backing stores, a texture is loaded and its imageData is reforged    *)
(* again and again with the formula set and the global scope of the moment *)

\* a copy that wraps the store of the original instead of copying it
AllocCopy_Shared(h, buf) == [heap |-> h, id |-> buf]

\* new Uint8ClampedArray(originalData.data): a new backing store holding
\* the bytes of the original's
AllocCopy(h, buf) ==
    LET id == CHOOSE i \in 1..(Cardinality(DOMAIN h) + 1) : i \notin DOMAIN h
    IN  [heap |-> [i \in DOMAIN h \cup {id} |-> IF i = id THEN h[buf] ELSE h[i]],
         id |-> id]

\* ImageProcessor.applyFormulas on objects of the heap h: originalData is
\* [width, height, buf]; the loop reads and writes the store of newImageData
applyFormulas(h, originalData, fs, scope) ==
    LET made == AllocCopy(h, originalData.buf)
        res == ApplyFormulas([width |-> originalData.width,
                              height |-> originalData.height,
                              data |-> made.heap[made.id]], fs, scope)
    IN  [heap |-> [made.heap EXCEPT ![made.id] = res.data.data],
         buf |-> made.id,
         error |-> res.error]

\* the stores still referenced by the texture; the others are collected
Live(h, texture) ==
    [i \in DOMAIN h \cap {texture.imageData, texture.processedImageData} |-> h[i]]

RunOf(result, fs, scope) ==
    [status |-> "ok", formulas |-> fs, globals |-> scope, buf |-> result.buf,
     out |-> result.heap[result.buf], error |-> result.error]

\* textures a decoder may return
ReforgeImages == {PatternImage(w, 1, s, 1) : w \in 1..MaxW, s \in {0, 2}}

\* formula sets typed into the editor
ReforgeFormulaSets == {
    F("r", "g", "b", "a"),
    F("r*2", "x", "b", "a"),
    F("r*2", "g", "b", "1n"),
    F("r +", "255-g", "b", "a") }

InitApp ==
    /\ heap = <<>>
    /\ activeTexture = NoTexture
    /\ appFormulas = F("r", "g", "b", "a")
    /\ formulaError = ""
    /\ globals = NoGlobals
    /\ loadedData = NoBytes
    /\ lastRun = NoRun
    /\ prevRun = NoRun
    /\ TGAUnused
    /\ BLPUnused
    /\ FxUnused
    /\ SwapUnused
    /\ EncUnused

\* handleFileChange with a file that decodes to imageData: the texture is
\* stored with the result of applyFormulas, whether it carries an error or not
HandleFileChange(imageData) ==
    LET h0 == <<imageData.data>>
        original == [width |-> imageData.width, height |-> imageData.height, buf |-> 1]
        result == applyFormulas(h0, original, appFormulas, globals)
        texture == [width |-> imageData.width, height |-> imageData.height,
                    imageData |-> 1, processedImageData |-> result.buf]
    IN  /\ activeTexture' = texture
        /\ heap' = Live(result.heap, texture)
        /\ loadedData' = imageData.data
        /\ lastRun' = RunOf(result, appFormulas, globals)
        /\ prevRun' = NoRun
        /\ UNCHANGED <<appFormulas, formulaError, globals, tgaVars, blpVars, fxVars, swapVars, encVars>>

\* setFormulas / applyPreset
SetFormulas(fs) ==
    /\ fs # appFormulas
    /\ appFormulas' = fs
    /\ UNCHANGED <<heap, activeTexture, formulaError, globals, loadedData,
                   lastRun, prevRun, tgaVars, blpVars, fxVars, swapVars, encVars>>

\* manualReforge: applyFormulas on the texture's imageData; with an error
\* the result is dropped and the error shown, else it becomes
\* processedImageData
ManualReforge ==
    /\ activeTexture # NoTexture
    /\ LET original == [width |-> activeTexture.width, height |-> activeTexture.height,
                        buf |-> activeTexture.imageData]
           result == applyFormulas(heap, original, appFormulas, globals)
           texture == IF result.error # "" THEN activeTexture
                      ELSE [activeTexture EXCEPT !.processedImageData = result.buf]
       IN  /\ activeTexture' = texture
           /\ heap' = Live(result.heap, texture)
           /\ formulaError' = result.error
           /\ lastRun' = RunOf(result, appFormulas, globals)
           /\ prevRun' = lastRun
    /\ UNCHANGED <<appFormulas, globals, loadedData, tgaVars, blpVars, fxVars, swapVars, encVars>>

\* another script of the page defines or deletes a global
AmbientChange(scope) ==
    /\ scope # globals
    /\ globals' = scope
    /\ UNCHANGED <<heap, activeTexture, appFormulas, formulaError, loadedData,
                   lastRun, prevRun, tgaVars, blpVars, fxVars, swapVars, encVars>>

NextApp ==
    \/ \E imageData \in ReforgeImages : HandleFileChange(imageData)
    \/ \E fs \in ReforgeFormulaSets : SetFormulas(fs)
    \/ ManualReforge
    \/ \E scope \in GlobalScopes : AmbientChange(scope)

SpecApp == InitApp /\ [][NextApp]_vars

---------------------------------------------------------------------------
(* Properties of the TGA codec, checked under SpecTGA *)

\* the two images have the same dimensions and the same byte at every index
SameImage(i1, i2) ==
    /\ i1.width = i2.width
    /\ i1.height = i2.height
    /\ Len(i1.data) = Len(i2.data)
    /\ \A j \in 1..Len(i2.data) : i1.data[j] = i2.data[j]

\* C1 as stated: decoding the bytes encode wrote for a buffer returns a
\* buffer of the same width and height with the same R,G,B,A bytes, for every
\* buffer.
C1_RoundTripAnySize ==
    tgaRound.status # "idle" =>
        tgaRound.status = "ok" /\ SameImage(tgaRound.img, ImageOf(srcImage))

\* C1 amended: decode(encode(B)) returns B byte for byte for every buffer
\* whose width and height fit the 16-bit fields of the TGA header.
C1_RoundTrip ==
    (tgaRound.status # "idle" /\ srcImage.width < U16Mod /\ srcImage.height < U16Mod)
        => tgaRound.status = "ok" /\ SameImage(tgaRound.img, ImageOf(srcImage))

\* a 2x2 buffer with four different pixels has gone through encode and decode
C1_Witness ==
    /\ tgaRound.status = "ok"
    /\ srcImage.width = 2 /\ srcImage.height = 2
    /\ ImageOf(srcImage).data[1] # ImageOf(srcImage).data[5]
    /\ ImageOf(srcImage).data[1] # ImageOf(srcImage).data[9]
    /\ tgaRound.img.data[9] = ImageOf(srcImage).data[9]

\* C2 as stated: a type 2 or type 10 file whose pixel data ends before
\* width*height pixels were read makes decode fail; no buffer with the
\* missing pixels filled in is returned.
C2_TruncatedIsError ==
    tgaDecoded.underrun => tgaDecoded.status = "error"

\* C3: a file with a complete header whose image type is neither 2 nor 10 is
\* rejected as unsupported, before the pixel data (or the ID block that
\* precedes it) is looked at, and no buffer is returned.
C3_UnsupportedTypeRejected ==
    (tgaDecoded.status # "idle" /\ Len(tgaFile) >= 18 /\ tgaFile[3] \notin {2, 10})
        => /\ tgaDecoded.status = "error"
           /\ tgaDecoded.error = "UnsupportedFormat"
           /\ tgaDecoded.img = NoImage

\* a type 1 file that announces an ID block it does not have is rejected
\* for its type
C3_Witness ==
    /\ tgaDecoded.error = "UnsupportedFormat"
    /\ tgaFile[3] = 1
    /\ tgaFile[1] = 1
    /\ Len(tgaFile) = 18

---------------------------------------------------------------------------
(* Properties of the BLP decoder, checked under SpecBLP *)

BLPDone == blpDecoded.status # "idle"
FileMagic == SubSeq(blpFile, 1, 4)
FileHasMagic == Len(blpFile) >= 4
FileHasType == Len(blpFile) >= 96

\* C4: a buffer is returned only for magic 'BLP1' or 'BLP2' with compression
\* type 0; any other magic fails as an invalid format, an accepted magic with
\* another compression type (in a file that holds the header fields decode
\* reads) fails as unsupported, and in both cases the JPEG collaborator is
\* not called.
C4_DecodeGate ==
    BLPDone =>
        /\ blpDecoded.status = "ok" =>
              /\ FileHasType
              /\ FileMagic \in {MagicBLP1, MagicBLP2}
              /\ GetUint32LE(blpFile, 4) = 0
        /\ (FileHasMagic /\ FileMagic \notin {MagicBLP1, MagicBLP2}) =>
              /\ blpDecoded.status = "error"
              /\ blpDecoded.error = "InvalidFormat"
              /\ jpegCalls = <<>>
        /\ (FileHasType /\ FileMagic \in {MagicBLP1, MagicBLP2}
                /\ GetUint32LE(blpFile, 4) # 0) =>
              /\ blpDecoded.status = "error"
              /\ blpDecoded.error = "UnsupportedFormat"
              /\ jpegCalls = <<>>

\* a BLP1 file of compression type 256 was rejected as unsupported
C4_Witness ==
    /\ blpDecoded.error = "UnsupportedFormat"
    /\ FileMagic = MagicBLP1
    /\ GetUint32LE(blpFile, 4) = 256
    /\ jpegCalls = <<>>

\* C5 as stated: every input whose magic is 'BLP2' is rejected with an error.
C5_BLP2Rejected ==
    (BLPDone /\ FileHasMagic /\ FileMagic = MagicBLP2) => blpDecoded.status = "error"

\* C5 amended: decode does not reject an input for its magic 'BLP2': such an
\* input never fails as an invalid format, with compression type 0 and slices
\* inside the file its stream reaches the JPEG collaborator, and a buffer is
\* returned whenever the collaborator decodes the stream.
C5_BLP2Decoded ==
    (BLPDone /\ FileHasMagic /\ FileMagic = MagicBLP2) =>
        /\ blpDecoded.error # "InvalidFormat"
        /\ (/\ Len(blpFile) >= 160
            /\ GetUint32LE(blpFile, 4) = 0
            /\ InRange(blpFile, GetUint32LE(blpFile, 28), GetUint32LE(blpFile, 92))
            /\ InRange(blpFile, 160, GetUint32LE(blpFile, 156))) => Len(jpegCalls) = 1
        /\ jpegImage # NoImage => blpDecoded.status = "ok"

\* a BLP2 file was decoded to a buffer
C5_Witness ==
    /\ blpDecoded.status = "ok"
    /\ FileMagic = MagicBLP2
    /\ jpegImage # NoImage

---------------------------------------------------------------------------
(* Properties of the evaluator, checked under SpecFx *)

FxDone == fxResult.status = "ok"
FxPixels == 0..(fxImage.width * fxImage.height - 1)

\* what the expressions see at pixel p
EnvAt(p) == Scope(fxImage.data[4 * p + 1], fxImage.data[4 * p + 2],
                 fxImage.data[4 * p + 3], fxImage.data[4 * p + 4], fxGlobals)

\* the expression of channel i: an empty formula stands for the channel's name
ExprOf(i) ==
    Parse(IF fxFormulas[Channels[i]] = "" THEN Channels[i] ELSE fxFormulas[Channels[i]])

\* one of the four formulas is not an expression
IllFormed == \E i \in 1..4 : ExprOf(i).op = "syntax"

\* what the expression of channel i computes from pixel p
ValueAt(p, i) == Eval(ExprOf(i), EnvAt(p))

\* the evaluation of some expression fails on pixel p
PixelFails(p) == \E i \in 1..4 : ValueAt(p, i).k = "throw"

\* C7: when one of the four formulas does not compile, the result carries an
\* error and its buffer is the input buffer, pixel for pixel.
C7_CompileFailureKeepsBuffer ==
    (FxDone /\ IllFormed) =>
        /\ fxResult.error # ""
        /\ SameImage(fxResult.data, fxImage)

\* a 2x2 buffer met a formula set whose red formula doubles and whose alpha
\* formula is ill-formed
C7_Witness ==
    /\ FxDone
    /\ fxFormulas = F("r*2", "g", "b", "(a")
    /\ fxImage.width = 2 /\ fxImage.height = 2
    /\ fxResult.error = "SyntaxError"

\* C8 as stated: a formula set that compiles is applied to every pixel and
\* returns no error; a pixel on which an expression fails keeps its four
\* input values.
C8_CompiledNeverAborts ==
    (FxDone /\ ~IllFormed) =>
        /\ fxResult.error = ""
        /\ fxResult.stored = Len(fxImage.data)
        /\ \A p \in FxPixels : PixelFails(p) =>
              \A i \in 1..4 : fxResult.data.data[4 * p + i] = fxImage.data[4 * p + i]

\* min(255, max(0, v)) in units of 1/Den, for a number v
Saturated(v) ==
    IF v.k = "inf" THEN (IF v.v > 0 THEN 255 * Den ELSE 0)
    ELSE Min(255 * Den, Max(0, ToNum(v).v))

\* the channels of pixel p that were stored with the value of an expression
Computed(p, i) ==
    /\ 4 * p + i <= fxResult.stored
    /\ ~PixelFails(p)
    /\ ValueAt(p, i).k \in {"num", "inf", "bool"}

\* C9 as stated: the value stored for a channel is min(255, max(0, v)), v
\* being the number the channel's expression computes from the pixel.
C9_StoredIsSaturated ==
    FxDone => \A p \in FxPixels : \A i \in 1..4 :
        Computed(p, i) =>
            fxResult.data.data[4 * p + i] * Den = Saturated(ValueAt(p, i))

\* C9 amended: the value stored for a channel is min(255, max(0, v)) rounded
\* to the nearest integer, a tie going to the even one, and 0 when v is NaN:
\* above 255 it is 255, below 0 it is 0, never v modulo 256.
C9_StoredIsRoundedSaturated ==
    FxDone => \A p \in FxPixels : \A i \in 1..4 :
        LET stored == fxResult.data.data[4 * p + i]
            v == ValueAt(p, i)
            off == Abs(stored * Den - Saturated(v))
        IN  /\ Computed(p, i) =>
                /\ stored \in 0..255
                /\ 2 * off <= Den
                /\ 2 * off = Den => stored % 2 = 0
            /\ (4 * p + i <= fxResult.stored /\ ~PixelFails(p) /\ v.k = "nan") =>
                stored = 0

\* the pixel (200,1,3,128) under r*1.5, g/2, b/2: 300 is stored as 255, 0.5
\* as 0 and 1.5 as 2
C9_Witness ==
    /\ FxDone
    /\ fxFormulas = F("r*1.5", "g/2", "b/2", "a")
    /\ SubSeq(fxImage.data, 1, 4) = <<200, 1, 3, 128>>
    /\ SubSeq(fxResult.data.data, 1, 4) = <<255, 0, 2, 128>>

\* C10: the default formula set returns, with no error, a buffer of the same
\* dimensions and bytes as the input, and an empty formula leaves its channel
\* as the identity formula does.
C10_DefaultIsIdentity ==
    FxDone =>
        /\ (\A i \in 1..4 : fxFormulas[Channels[i]] \in {"", Channels[i]}) =>
              fxResult.error = "" /\ SameImage(fxResult.data, fxImage)
        /\ \A i \in 1..4 : fxFormulas[Channels[i]] = "" =>
              \A p \in FxPixels : fxResult.data.data[4 * p + i] = fxImage.data[4 * p + i]

\* the default set and the all-empty set were applied to a 2x2 buffer
C10_Witness ==
    /\ FxDone
    /\ fxFormulas \in {F("r", "g", "b", "a"), F("", "", "", "")}
    /\ fxImage.width = 2 /\ fxImage.height = 2
    /\ fxResult.error = ""
    /\ fxResult.stored = 16

---------------------------------------------------------------------------
(* Properties of the application, checked under SpecApp *)

Loaded == activeTexture # NoTexture

\* C11: whatever sequence of applyFormulas calls was made on the imageData
\* of the loaded texture, with formula sets that compile or not and fail per
\* pixel or not, its width, height and bytes are those it was loaded with,
\* and each returned buffer has a backing store other than the source's.
C11_InputNeverMutated ==
    Loaded =>
        /\ heap[activeTexture.imageData] = loadedData
        /\ Len(loadedData) = activeTexture.width * activeTexture.height * 4
        /\ lastRun.buf # activeTexture.imageData
        /\ activeTexture.processedImageData # activeTexture.imageData

\* two calls were made on a texture, the earlier one doubling red, the later
\* one aborting on a BigInt alpha, and its first pixel is still as loaded
C11_Witness ==
    /\ Loaded
    /\ prevRun.status = "ok" /\ prevRun.formulas = F("r*2", "x", "b", "a")
    /\ prevRun.out[1] = 20
    /\ lastRun.formulas = F("r*2", "g", "b", "1n") /\ lastRun.error = "TypeError"
    /\ SubSeq(heap[activeTexture.imageData], 1, 4) = <<10, 20, 30, 255>>

\* C12 as stated: two runs on the same buffer with the same formula set give
\* the same output bytes and the same error, whatever the ambient state of
\* each run was.
C12_SameInputsSameOutput ==
    (Loaded /\ prevRun.status = "ok" /\ prevRun.formulas = lastRun.formulas) =>
        /\ prevRun.out = lastRun.out
        /\ prevRun.error = lastRun.error

---------------------------------------------------------------------------
(* Properties of the channel swap, checked under SpecSwap *)

\* C13: swapRBChannels applied twice returns the original bytes, and one
\* application exchanges bytes 0 and 2 of each 4-byte pixel and leaves
\* bytes 1 and 3, the length and the dimensions as they were.
C13_SwapInvolution ==
    /\ Len(swapImage.data) = Len(swapOriginal)
    /\ Len(swapImage.data) = swapImage.width * swapImage.height * 4
    /\ swapCount % 2 = 0 => swapImage.data = swapOriginal
    /\ swapCount % 2 = 1 =>
          \A p \in 0..(swapImage.width * swapImage.height - 1) :
              /\ swapImage.data[4 * p + 1] = swapOriginal[4 * p + 3]
              /\ swapImage.data[4 * p + 2] = swapOriginal[4 * p + 2]
              /\ swapImage.data[4 * p + 3] = swapOriginal[4 * p + 1]
              /\ swapImage.data[4 * p + 4] = swapOriginal[4 * p + 4]

\* a 2x2 buffer whose pixels have R different from B was swapped twice
C13_Witness ==
    /\ swapCount = 2
    /\ swapImage.width = 2 /\ swapImage.height = 2
    /\ \A p \in 0..3 : swapOriginal[4 * p + 1] # swapOriginal[4 * p + 3]
    /\ swapImage.data = swapOriginal

---------------------------------------------------------------------------
(* Properties of the BLP encoder, checked under SpecEnc *)

\* the little-endian u32 at offset off of the encoded output
OutU32(off) == GetUint32LE(blpEncoded.bytes, off)

\* C14: the output of encode is a 160-byte header immediately followed by
\* the JPEG bytes J; the header has the magic 'BLP1', 0 at offset 4, 8 at
\* offset 8, the width at 12, the height at 16, 5 at 20, 1 at 24, 0 at 156
\* and 0 in the mip offsets and sizes 1..15; the level-0 offset and size
\* delimit exactly J, and decode extracts J from the output.
C14_EncodedLayout ==
    blpEncoded.status = "ok" =>
        /\ Len(blpEncoded.bytes) = 160 + Len(encJpeg)
        /\ SubSeq(blpEncoded.bytes, 161, Len(blpEncoded.bytes)) = encJpeg
        /\ SubSeq(blpEncoded.bytes, 1, 4) = MagicBLP1
        /\ OutU32(4) = 0
        /\ OutU32(8) = 8
        /\ OutU32(12) = encCanvas.width
        /\ OutU32(16) = encCanvas.height
        /\ OutU32(20) = 5
        /\ OutU32(24) = 1
        /\ OutU32(156) = 0
        /\ \A i \in 1..15 : OutU32(28 + 4 * i) = 0 /\ OutU32(92 + 4 * i) = 0
        /\ OutU32(28) + OutU32(92) = Len(blpEncoded.bytes)
        /\ Slice(blpEncoded.bytes, OutU32(28), OutU32(92)) = encJpeg
        /\ encStream.status # "idle" =>
              encStream.status = "ok" /\ encStream.bytes = encJpeg

\* a 2x1 canvas was encoded with a JPEG of MaxTail bytes and decode
\* extracted these bytes from the output
C14_Witness ==
    /\ blpEncoded.status = "ok"
    /\ encCanvas.width = 2 /\ encCanvas.height = 1
    /\ Len(encJpeg) = MaxTail
    /\ encStream.status = "ok"
    /\ encStream.bytes = encJpeg
    /\ OutU32(12) = 2 /\ OutU32(92) = MaxTail

---------------------------------------------------------------------------
(* Properties of the TGA encoder and decoder, checked under SpecTGA *)

\* the header of the encoded bytes out is that of an uncompressed 32-bit
\* file of the given width and height with no ID block and no color map
HeaderIs(out, width, height) ==
    /\ out[1] = 0 /\ out[2] = 0 /\ out[3] = 2
    /\ \A j \in 4..12 : out[j] = 0
    /\ GetUint16LE(out, 12) = width
    /\ GetUint16LE(out, 14) = height
    /\ out[17] = 32 /\ out[18] = 8

\* after the header, out holds the rows of data from row height-1 down to
\* row 0, each pixel as B,G,R,A
RowsBottomUp(out, data, width, height) ==
    \A y \in 0..(height - 1) : \A x \in 0..(width - 1) :
        LET at == 18 + (((height - 1 - y) * width) + x) * 4
            idx == (y * width + x) * 4
        IN  /\ out[at + 1] = data[idx + 3]
            /\ out[at + 2] = data[idx + 2]
            /\ out[at + 3] = data[idx + 1]
            /\ out[at + 4] = data[idx + 4]

\* C15 as stated: for every buffer, encode writes 18 + W*H*4 bytes, a header
\* with type 2, W and H as 16-bit little-endian fields, depth 32, descriptor
\* 8 and zeros elsewhere, then the rows from H-1 down to 0 as B,G,R,A.
C15_EncodedLayoutAnySize ==
    tgaEncoded.status = "ok" =>
        /\ tgaEncoded.size = 18 + srcImage.width * srcImage.height * 4
        /\ HeaderIs(EncodedOf(srcImage), srcImage.width, srcImage.height)
        /\ RowsBottomUp(EncodedOf(srcImage), ImageOf(srcImage).data,
                        srcImage.width, srcImage.height)

\* C15 amended: the size is 18 + W*H*4 for every buffer, and for every
\* buffer whose width and height fit 16 bits the header and the rows are as
\* stated.
C15_EncodedLayout ==
    tgaEncoded.status = "ok" =>
        /\ tgaEncoded.size = 18 + srcImage.width * srcImage.height * 4
        /\ (srcImage.width < U16Mod /\ srcImage.height < U16Mod) =>
              /\ Len(EncodedOf(srcImage)) = tgaEncoded.size
              /\ HeaderIs(EncodedOf(srcImage), srcImage.width, srcImage.height)
              /\ RowsBottomUp(EncodedOf(srcImage), ImageOf(srcImage).data,
                              srcImage.width, srcImage.height)

\* a 2x2 buffer with four different pixels was encoded: the first stored
\* pixel is the first pixel of its second row
C15_Witness ==
    /\ tgaEncoded.status = "ok"
    /\ tgaEncoded.size = 34
    /\ srcImage.width = 2 /\ srcImage.height = 2
    /\ srcImage.seed = 0 /\ srcImage.step = 1
    /\ SubSeq(EncodedOf(srcImage), 19, 22) = <<255, 64, 0, 0>>
    /\ SubSeq(EncodedOf(srcImage), 27, 30) = <<30, 20, 10, 255>>


\* the pixel bytes the packets of raw from offset on stand for, until need
\* pixels are produced: a packet with header byte h stands for (h & 0x7F)+1
\* pixels, copies of the one pixel that follows when bit 7 of h is set, the
\* pixels that follow otherwise; ok is FALSE when raw ends inside a packet
RECURSIVE Expansion(_, _, _, _)
Expansion(raw, offset, need, bpp) ==
    IF need <= 0 THEN [ok |-> TRUE, pixels |-> <<>>]
    ELSE IF offset >= Len(raw) THEN [ok |-> FALSE, pixels |-> <<>>]
    ELSE LET h == raw[offset + 1]
             n == (h % 128) + 1
             stored == IF h >= 128 THEN 1 ELSE n
             next == offset + 1 + stored * bpp
         IN  IF next > Len(raw) THEN [ok |-> FALSE, pixels |-> <<>>]
             ELSE LET rest == Expansion(raw, next, need - n, bpp)
                      here == [j \in 1..(n * bpp) |->
                                  IF h >= 128 THEN raw[offset + 2 + ((j - 1) % bpp)]
                                  ELSE raw[offset + 1 + j]]
                  IN  [ok |-> rest.ok, pixels |-> here \o rest.pixels]

FileBpp == IF tgaFile[17] = 32 THEN 4 ELSE 3
FileDataStart == 18 + tgaFile[1]
FilePixelCount == GetUint16LE(tgaFile, 12) * GetUint16LE(tgaFile, 14)

\* the expansion of the packets of tgaFile
FileExpansion ==
    Expansion(SubSeq(tgaFile, FileDataStart + 1, Len(tgaFile)), 0, FilePixelCount, FileBpp)

\* tgaFile is an RLE file whose packets are complete
WellFormedRLE ==
    /\ Len(tgaFile) >= 18
    /\ tgaFile[3] = 10
    /\ Len(tgaFile) >= FileDataStart
    /\ FileExpansion.ok

\* the uncompressed file with the header and ID block of tgaFile whose pixel
\* data is the expansion of its packets
UncompressedTwin ==
    [j \in 1..FileDataStart |-> IF j = 3 THEN 2 ELSE tgaFile[j]] \o FileExpansion.pixels

\* C16: decode of a well-formed RLE file returns what decode of the
\* uncompressed file with the same header fields and the expanded pixels
\* returns, and the decoded buffer, encoded again, is an uncompressed file
\* that decodes to the same pixels.
C16_RLEAsUncompressed ==
    (tgaDecoded.status # "idle" /\ WellFormedRLE) =>
        /\ tgaDecoded = TGADecode(UncompressedTwin)
        /\ tgaReencoded.status = "ok" =>
              /\ tgaReencoded.bytes[3] = 2
              /\ TGADecode(tgaReencoded.bytes).status = "ok"
              /\ SameImage(TGADecode(tgaReencoded.bytes).img, tgaDecoded.img)

\* a 2x2 bottom-to-top RLE file that starts with a run of three or more
\* pixels, which crosses the row boundary, was decoded and encoded again:
\* the run fills the bottom row and the first pixel of the top row
C16_Witness ==
    /\ WellFormedRLE
    /\ tgaDecoded.status = "ok"
    /\ tgaDecoded.img.width = 2 /\ tgaDecoded.img.height = 2
    /\ tgaFile[FileDataStart + 1] >= 128 + 2
    /\ tgaReencoded.status = "ok"
    /\ Len(tgaReencoded.bytes) = 34
    /\ tgaFile[18] = 8
    /\ SubSeq(tgaDecoded.img.data, 1, 4) = SubSeq(tgaDecoded.img.data, 9, 12)
    /\ SubSeq(tgaDecoded.img.data, 9, 12) = SubSeq(tgaDecoded.img.data, 13, 16)


FileWidth == GetUint16LE(tgaFile, 12)
FileHeight == GetUint16LE(tgaFile, 14)

\* tgaFile is an uncompressed file of depth 24 or 32 that holds its ID block
\* and all its width*height pixels
CompleteUncompressed ==
    /\ Len(tgaFile) >= 18
    /\ tgaFile[3] = 2
    /\ tgaFile[17] \in {24, 32}
    /\ Len(tgaFile) >= FileDataStart + FilePixelCount * FileBpp

\* tgaFile with every byte of its ID block replaced by v
WithIdBlock(v) ==
    [j \in 1..Len(tgaFile) |-> IF j > 18 /\ j <= FileDataStart THEN v ELSE tgaFile[j]]

\* the decoded buffer holds the k-th stored pixel of tgaFile at column
\* k % width of row k \div width when descriptor bit 5 is set, of the row
\* mirrored vertically when it is clear, as R,G,B,A with A = 255 unless the
\* depth is 32
PlacedAsStored ==
    /\ tgaDecoded.status = "ok"
    /\ tgaDecoded.img.width = FileWidth
    /\ tgaDecoded.img.height = FileHeight
    /\ Len(tgaDecoded.img.data) = FilePixelCount * 4
    /\ \A k \in 0..(FilePixelCount - 1) :
          LET x == k % FileWidth
              y == k \div FileWidth
              row == IF (tgaFile[18] \div 32) % 2 = 1 THEN y ELSE FileHeight - 1 - y
              at == FileDataStart + k * FileBpp
              p == (row * FileWidth + x) * 4
          IN  /\ tgaDecoded.img.data[p + 1] = tgaFile[at + 3]
              /\ tgaDecoded.img.data[p + 2] = tgaFile[at + 2]
              /\ tgaDecoded.img.data[p + 3] = tgaFile[at + 1]
              /\ tgaDecoded.img.data[p + 4] = IF tgaFile[17] = 32 THEN tgaFile[at + 4] ELSE 255
    /\ \A v \in {0, 255} : TGADecode(WithIdBlock(v)) = tgaDecoded
    /\ tgaFile = ScenarioTGA =>
          tgaDecoded.img.data = <<255, 0, 0, 255, 0, 0, 255, 128>>

\* C17 as stated: every complete uncompressed file of depth 24 or 32 is
\* decoded to a width x height buffer with the stored pixels placed by the
\* origin bit, whatever its ID block holds.
C17_UncompressedLayoutAnyDims ==
    (tgaDecoded.status # "idle" /\ CompleteUncompressed) => PlacedAsStored

\* C17 amended: the same for every such file whose width and height are at
\* least 1; a file that announces width 0 or height 0 is not decoded to an
\* empty buffer, decode throws.
C17_UncompressedLayout ==
    (tgaDecoded.status # "idle" /\ CompleteUncompressed) =>
        IF FileWidth >= 1 /\ FileHeight >= 1 THEN PlacedAsStored
        ELSE tgaDecoded.status = "error"

\* a 2x2 bottom-to-top file of depth 24 with an ID block was decoded: its
\* first stored pixel is the first pixel of the second row, opaque
C17_Witness ==
    /\ tgaDecoded.status = "ok"
    /\ CompleteUncompressed
    /\ FileWidth = 2 /\ FileHeight = 2
    /\ tgaFile[1] = 1 /\ tgaFile[17] = 24 /\ tgaFile[18] = 8
    /\ SubSeq(tgaDecoded.img.data, 9, 12) = <<tgaFile[22], tgaFile[21], tgaFile[20], 255>>
    /\ SubSeq(tgaDecoded.img.data, 1, 4) = <<tgaFile[28], tgaFile[27], tgaFile[26], 255>>
    /\ tgaFile[22] # tgaFile[28]

---------------------------------------------------------------------------
(* Properties of the stream BLP decode assembles, checked under SpecBLP *)

\* the file is long enough for its header and has an accepted magic and
\* compression type 0
Accepted ==
    /\ Len(blpFile) >= 160
    /\ FileMagic \in {MagicBLP1, MagicBLP2}
    /\ GetUint32LE(blpFile, 4) = 0

\* bytes from (0-based) offset from on, length of them, of the file
FileBytes(from, length) == [j \in 1..length |-> blpFile[from + j]]

\* length bytes from offset from on lie inside the file
FileHolds(from, length) == from + length <= Len(blpFile)

\* blpFile with other width and height fields and with the offsets and sizes
\* of the mip levels 1..15 set to zero
OtherDimsNoMips ==
    [j \in 1..Len(blpFile) |->
        IF j \in 13..20 THEN (IF j \in {13, 17} THEN 9 ELSE 0)
        ELSE IF j \in 33..92 \/ j \in 97..156 THEN 0
        ELSE blpFile[j]]

\* C18: for an accepted file whose shared header and level-0 payload lie
\* inside it, the stream handed to the JPEG collaborator is the S bytes at
\* offset 160 (S being the u32 at 156; none when S is 0) followed by the
\* `size` bytes at `offset` (the u32 at 92 and at 28); when one of the two
\* does not lie inside the file decode throws and nothing is handed over.
\* The stream is the same for other width and height fields and other
\* entries of the mip levels 1..15.
C18_JpegStream ==
    (BLPDone /\ Accepted) =>
        LET S == GetUint32LE(blpFile, 156)
            offset == GetUint32LE(blpFile, 28)
            size == GetUint32LE(blpFile, 92)
        IN  /\ IF FileHolds(160, S) /\ FileHolds(offset, size)
               THEN jpegCalls = << FileBytes(160, S) \o FileBytes(offset, size) >>
               ELSE jpegCalls = <<>> /\ blpDecoded.status = "error"
            /\ BLPJpegStream(OtherDimsNoMips).status = BLPJpegStream(blpFile).status
            /\ BLPJpegStream(OtherDimsNoMips).bytes = BLPJpegStream(blpFile).bytes

\* a file with a 2-byte shared header at 160 and a 2-byte payload at 162 was
\* decoded: the collaborator was handed the four bytes in this order
C18_Witness ==
    /\ BLPDone
    /\ Accepted
    /\ GetUint32LE(blpFile, 156) = 2
    /\ GetUint32LE(blpFile, 28) = 162
    /\ GetUint32LE(blpFile, 32) # 0
    /\ jpegCalls = << <<201, 202, 203, 204>> >>

====
